---- MODULE Spec2Model ----
(***************************************************************************)
(* claude-sync: the sync engine (push / pull / sync), the conflict         *)
(* resolver, the merger, the snapshots and their commands, the pattern     *)
(* matcher, and the file watcher with its debounced trigger.               *)
(*                                                                         *)
(* The live local tree (~/.claude), the mirror (~/.claude-sync/repo) and   *)
(* the git objects are maps from a path to a content, or to Absent.        *)
(***************************************************************************)
EXTENDS Integers, Sequences, FiniteSets, TLC

VARIABLES
    \* ---- files and git
    local,        \* live local tree (claudeHome)
    mirror,       \* work tree of the mirror (syncRepoDir)
    index,        \* git staging area of the mirror
    head,         \* tree of the mirror's last commit
    remote,       \* tree of origin/<branch>
    base,         \* tree of the newest commit of origin the mirror has merged
    backups,      \* snapshots under backupDir, oldest first
    \* ---- configuration (fixed by the constructor)
    strategy,     \* config.sync.conflictStrategy
    eligible,     \* paths the scanner's include/exclude rules accept
    config,       \* the other fields of config.sync that validateConfig reads
    \* ---- position of the running operation
    op,           \* "none" | "push" | "pull" | "sync"
    phase,        \* "none" | "push" | "pull" : the method running now
    pc,           \* the await the method is at
    files,        \* push: scanResult.files ; pull: repoFiles
    conflicts,    \* pull: what checkForConflicts returned
    resolved,     \* pull: what resolveConflicts has pushed so far
    result,       \* what the method (or the operation) returned last
    pullResult,   \* sync: what pull() returned
    pushResult,   \* sync: what push() returned
    \* ---- history of the running method (observers, not program state)
    choices,      \* the ResolveResult.choice of each resolved record
    snap,         \* "none" | "ok" | "failed" : createBackup of this method
    preLocal,     \* the live local tree when the method started
    preMirror,    \* the mirror when the method started
    localWrites,  \* paths of the live local tree written by this method
    mirrorWrites, \* paths of the mirror written by this method
    transport,    \* number of GitManager calls made by this method
    copies,       \* number of copyFileSync calls of copyFilesToRepo
    commits,      \* number of commits this method created
    pushCalled,   \* whether this method called git.push
    lastOp,       \* the operation that returned last
    cleanPush,    \* the last operation was a successful push, nothing changed since
    opsDone,      \* number of operations started
    \* ---- the watcher (commands/watch.ts)
    syncInProgress, \* the busy guard
    timeout,        \* debounce: whether a timer is pending
    remaining,      \* debounce: time left on the pending timer
    pendingArgs,    \* debounce: the arguments the pending `later` closes over
    wait,           \* debounce: the delay
    lastArgs,       \* arguments of the last call of the debounced function
    invoked,        \* arguments of each invocation of func, in order
    bursts,         \* number of timers armed with no timer pending
    calls,          \* number of calls of the debounced function
    sinceCall,      \* time elapsed since the last call (capped at wait)
    quiet,          \* number of bursts: runs of calls less than wait apart
    inFlight,       \* number of engine.sync() calls not yet settled
    started,        \* number of engine.sync() calls the watcher made
    skipped,        \* number of triggers that found the guard held
    lastTrigger,    \* what the last trigger did: "none" | "started" | "skipped"
    \* ---- the resolver taken alone
    rc,             \* <<>>, or <<an input of resolveConflict and what it returned>>
    \* ---- the merger taken alone
    mc,             \* <<>>, or <<an input of mergeJson / threeWayMerge and its MergeResult>>
    \* ---- the snapshots taken alone
    bk,             \* <<>>, or <<a call of backup clean / restoreBackup and what it did>>
    clock,          \* the time: the name and the mtime of the snapshot created last
    \* ---- the pattern matcher taken alone
    pm              \* <<>>, or <<an input of matchesPattern and what it returned>>

fileVars  == <<local, mirror, index, head, remote, base, backups>>
confVars  == <<strategy, eligible, config>>
posVars   == <<op, phase, pc, files, conflicts, resolved, result, pullResult, pushResult>>
histVars  == <<choices, snap, preLocal, preMirror, localWrites, mirrorWrites,
               transport, copies, commits, pushCalled, lastOp, cleanPush, opsDone>>
debVars   == <<timeout, remaining, pendingArgs, wait, lastArgs, invoked, bursts,
               calls, sinceCall, quiet>>
watchVars == <<syncInProgress, inFlight, started, skipped, lastTrigger>>
vars == <<fileVars, confVars, posVars, histVars, debVars, watchVars, rc, mc, bk, clock, pm>>

----------------------------------------------------------------------------
(* Bounds of the model *)

MaxOps    == 2   \* operations started from the command line
MaxEvents == 3   \* file events the watcher receives
MaxWait   == 2   \* largest debounce delay, in ticks
MaxMTime  == 2   \* modification times are 1..MaxMTime
MaxLeaf   == 4   \* the numbers in the JSON documents are 1..MaxLeaf
MaxSnapshots == 2 \* snapshots created by hand
MaxPatterns == 3 \* patterns in a list given to matchesPattern

----------------------------------------------------------------------------
(* Values *)

Absent == "absent"
Null   == "undefined"
NoCount == 0 - 1            \* an undefined pushed / pulled count
NoTime == 0                 \* a modification time statSync could not give (null)

Paths     == {"CLAUDE.md", "settings.json"}
PathOrder == <<"CLAUDE.md", "settings.json">>   \* readdir order
TreeContents == {"ja", "jb"}                    \* contents the trees hold
Contents  == {"ja", "jb", "txt"}                \* "txt" does not parse as JSON
Strategies == {"ask", "local", "remote", "newest"}
Trees     == [Paths -> TreeContents \cup {Absent}]
NoTree    == [p \in Paths |-> Absent]
MTimes    == 1..MaxMTime

Range(s) == {s[i] : i \in 1..Len(s)}
Prefix(s, k) == SubSeq(s, 1, k)

\* SyncResult
Res(success, pushed, pulled, confl, errors, message) ==
    [success |-> success, pushed |-> pushed, pulled |-> pulled,
     conflicts |-> confl, errors |-> errors, message |-> message]
NoResult == Res(FALSE, NoCount, NoCount, <<>>, <<>>, "none")

----------------------------------------------------------------------------
(* Pure helpers of the engine *)

\* FileScanner.scan(): the eligible files present in the live local tree.
scan(tree, elig) ==
    SelectSeq(PathOrder, LAMBDA p : tree[p] # Absent /\ p \in elig)

\* the effect of copyFileSync(src/p, dst/p) for the first k files of fs
CopyFiles(src, dst, fs, k) ==
    [p \in Paths |-> IF p \in Range(Prefix(fs, k)) THEN src[p] ELSE dst[p]]

\* the directory createBackup makes at time t, after copying the first k files
\* of fs: its name is the time, its mtime the time of the last copy
BackupInfo(t, fs, k, tree) ==
    [name |-> t, timestamp |-> t, files |-> Prefix(fs, k),
     tree |-> CopyFiles(tree, NoTree, fs, k)]

\* SyncEngine.getRepoFiles(): every file of the mirror except .git
getRepoFiles(tree) ==
    SelectSeq(PathOrder, LAMBDA p : tree[p] # Absent)

\* SyncEngine.checkForConflicts(files)
checkForConflicts(fs, loc, mir) ==
    LET differs(p) == loc[p] # Absent /\ mir[p] # Absent /\ loc[p] # mir[p]
        cs == SelectSeq(fs, differs)
    IN  [i \in 1..Len(cs) |->
            [path |-> cs[i], localContent |-> loc[cs[i]], remoteContent |-> mir[cs[i]]]]

----------------------------------------------------------------------------
(* The conflict resolver (core/conflict-resolver.ts, core/merger.ts) *)

\* Merger.canMerge(filePath): the path ends with .json
canMerge(path) == path \in {"settings.json"}

\* whether JSON.parse accepts the content
IsJson(c) == c # "txt"

\* Merger.applyMergeChoice(localContent, remoteContent, choice)
applyMergeChoice(localContent, remoteContent, choice) ==
    CASE choice = "local"  -> localContent
      [] choice = "remote" -> remoteContent
      [] choice = "merge"  ->
            IF IsJson(localContent) /\ IsJson(remoteContent)
            THEN "stringify(deepmerge(" \o localContent \o "," \o remoteContent \o "))"
            ELSE remoteContent

\* the choices inquirer offers in askUser
Answers(mergeable) ==
    {"local", "remote", "skip"} \cup (IF mergeable THEN {"merge"} ELSE {})

\* askUser whose skip branch returns resolved=false without a choice
askUser_noChoice(conflict, mergeable, answer) ==
    CASE answer = "local" ->
            [resolved |-> TRUE, choice |-> "local", content |-> conflict.localContent]
      [] answer = "remote" ->
            [resolved |-> TRUE, choice |-> "remote", content |-> conflict.remoteContent]
      [] answer = "merge" ->
            [resolved |-> TRUE, choice |-> "merge",
             content |-> applyMergeChoice(conflict.localContent, conflict.remoteContent, "merge")]
      [] OTHER ->
            [resolved |-> FALSE, choice |-> Null, content |-> Null]

\* ConflictResolver.askUser(conflict, canMerge), given the user's answer
askUser(conflict, mergeable, answer) ==
    CASE answer = "local" ->
            [resolved |-> TRUE, choice |-> "local", content |-> conflict.localContent]
      [] answer = "remote" ->
            [resolved |-> TRUE, choice |-> "remote", content |-> conflict.remoteContent]
      [] answer = "merge" ->
            [resolved |-> TRUE, choice |-> "merge",
             content |-> applyMergeChoice(conflict.localContent, conflict.remoteContent, "merge")]
      [] OTHER ->
            [resolved |-> FALSE, choice |-> "skip", content |-> Null]

\* resolveByNewest comparing with >= : a tie goes to the local side
resolveByNewest_tieLocal(conflict, localMtime, remoteMtime) ==
    IF localMtime # NoTime /\ remoteMtime # NoTime
    THEN IF localMtime >= remoteMtime
         THEN [resolved |-> TRUE, choice |-> "local", content |-> conflict.localContent]
         ELSE [resolved |-> TRUE, choice |-> "remote", content |-> conflict.remoteContent]
    ELSE IF localMtime # NoTime
    THEN [resolved |-> TRUE, choice |-> "local", content |-> conflict.localContent]
    ELSE [resolved |-> TRUE, choice |-> "remote", content |-> conflict.remoteContent]

\* ConflictResolver.resolveByNewest(conflict), given what statSync found
resolveByNewest(conflict, localMtime, remoteMtime) ==
    IF localMtime # NoTime /\ remoteMtime # NoTime
    THEN IF localMtime > remoteMtime
         THEN [resolved |-> TRUE, choice |-> "local", content |-> conflict.localContent]
         ELSE [resolved |-> TRUE, choice |-> "remote", content |-> conflict.remoteContent]
    ELSE IF localMtime # NoTime
    THEN [resolved |-> TRUE, choice |-> "local", content |-> conflict.localContent]
    ELSE IF remoteMtime # NoTime
    THEN [resolved |-> TRUE, choice |-> "remote", content |-> conflict.remoteContent]
    ELSE [resolved |-> TRUE, choice |-> "remote", content |-> conflict.remoteContent]

\* ConflictResolver.resolveConflict(conflict)
resolveConflict(strat, conflict, localMtime, remoteMtime, answer) ==
    CASE strat = "local" ->
            [resolved |-> TRUE, choice |-> "local", content |-> conflict.localContent]
      [] strat = "remote" ->
            [resolved |-> TRUE, choice |-> "remote", content |-> conflict.remoteContent]
      [] strat = "newest" -> resolveByNewest(conflict, localMtime, remoteMtime)
      [] OTHER -> askUser(conflict, canMerge(conflict.path), answer)

\* the record resolveConflicts pushes for one conflict and its ResolveResult
resolveConflictsEntry(conflict, r) ==
    [path |-> conflict.path, localContent |-> conflict.localContent,
     remoteContent |-> conflict.remoteContent,
     resolved |-> IF r.resolved /\ r.content # Null THEN TRUE
                  ELSE IF r.choice = "skip" THEN FALSE
                  ELSE TRUE]

\* applyResolutions without its test of conflict.resolved: every record is written
ToApply_all(rs) == rs

\* the records of rs that applyResolutions writes, in order
ToApply(rs) == SelectSeq(rs, LAMBDA c : c.resolved)

\* ConflictResolver.applyResolutions: the tree after the first k writes
applyResolutions(rs, tree, k) ==
    LET ws == Prefix(ToApply(rs), k)
    IN  [p \in Paths |->
            IF \E i \in 1..Len(ws) : ws[i].path = p
            THEN (CHOOSE c \in Range(ws) : c.path = p).remoteContent
            ELSE tree[p]]

\* SyncEngine.applyFilesToClaude: the tree after the first k files
applyFilesToClaude(fs, mir, tree, k) ==
    [p \in Paths |->
        IF p \in Range(Prefix(fs, k)) /\ mir[p] # Absent THEN mir[p] ELSE tree[p]]

----------------------------------------------------------------------------
(* The transport (core/git-manager.ts over git) *)

\* the tree a merge of origin into HEAD gives; Null where both sides changed
Merge3(b, h, r) ==
    [p \in Paths |->
        IF h[p] = b[p] THEN r[p]
        ELSE IF r[p] = b[p] \/ r[p] = h[p] THEN h[p]
        ELSE Null]

\* git refuses a pull that conflicts or would overwrite uncommitted changes
PullPossible(b, h, r, wt, ix) ==
    LET m == Merge3(b, h, r)
    IN  \A p \in Paths :
            /\ m[p] # Null
            /\ (wt[p] # h[p] \/ ix[p] # h[p]) => m[p] = h[p]

----------------------------------------------------------------------------
(* Initial states *)

\* DEFAULT_CONFIG.sync.syncIntervalMinutes
DefaultInterval == 30

\* a configuration that `claude-sync init` has completed
InitializedConfig ==
    [repository |-> "origin-url", branch |-> "main", syncIntervalMinutes |-> DefaultInterval]

InitFiles ==
    /\ local \in Trees
    /\ remote \in [Paths -> {"jb", Absent}]
    /\ head \in {NoTree, remote}       \* a new repository, or an up-to-date clone
    /\ mirror = head /\ index = head /\ base = head
    /\ backups = <<>>

InitEngine ==
    /\ strategy \in Strategies
    /\ eligible \in {Paths, {"settings.json"}}
    /\ op = "none" /\ phase = "none" /\ pc = "idle"
    /\ files = <<>> /\ conflicts = <<>> /\ resolved = <<>> /\ choices = <<>>
    /\ result = NoResult /\ pullResult = NoResult /\ pushResult = NoResult
    /\ snap = "none" /\ preLocal = local /\ preMirror = mirror
    /\ localWrites = {} /\ mirrorWrites = {}
    /\ transport = 0 /\ copies = 0 /\ commits = 0 /\ pushCalled = FALSE
    /\ lastOp = "none" /\ cleanPush = FALSE /\ opsDone = 0

InitWatcher ==
    /\ syncInProgress = FALSE
    /\ timeout = FALSE /\ remaining = 0 /\ pendingArgs = Null
    /\ lastArgs = Null /\ invoked = <<>> /\ bursts = 0 /\ calls = 0 /\ sinceCall = 0 /\ quiet = 0
    /\ inFlight = 0 /\ started = 0 /\ skipped = 0 /\ lastTrigger = "none"

InitResolver == rc = <<>> /\ mc = <<>> /\ bk = <<>> /\ clock = 0 /\ pm = <<>>

Init ==
    /\ InitFiles /\ InitEngine /\ InitWatcher /\ InitResolver
    /\ config = InitializedConfig
    /\ wait = 1

----------------------------------------------------------------------------
(* The engine: one action per await of push(), pull() and sync() *)

\* entering push() or pull(): the method's locals and its history start afresh
BeginMethod(ph) ==
    /\ phase' = ph /\ pc' = "createBackup"
    /\ files' = <<>> /\ conflicts' = <<>> /\ resolved' = <<>> /\ choices' = <<>>
    /\ snap' = "none" /\ preLocal' = local /\ preMirror' = mirror
    /\ localWrites' = {} /\ mirrorWrites' = {}
    /\ transport' = 0 /\ copies' = 0 /\ commits' = 0 /\ pushCalled' = FALSE

\* the method returns r (its catch block returns the failures)
Return(r) == pc' = "return" /\ result' = r

Thrown(what) ==
    Res(FALSE, NoCount, NoCount, <<>>, <<"Error: " \o what>>,
        IF phase = "push" THEN "Push operation failed" ELSE "Pull operation failed")

\* a command (commands/push.ts, pull.ts, sync.ts) calls the engine
StartOp(o) ==
    /\ op = "none" /\ ~syncInProgress /\ opsDone < MaxOps
    /\ op' = o /\ opsDone' = opsDone + 1
    /\ BeginMethod(IF o = "push" THEN "push" ELSE "pull")
    /\ result' = NoResult /\ pullResult' = NoResult /\ pushResult' = NoResult
    /\ UNCHANGED <<fileVars, confVars, lastOp, cleanPush, debVars, watchVars, rc, mc, bk, clock, pm>>

\* createBackup whose failure is swallowed: the method goes on without a snapshot
createBackup_swallowed ==
    /\ op # "none" /\ pc = "createBackup"
    /\ LET fl == scan(local, eligible) IN
       \E k \in 0..Len(fl), ok \in BOOLEAN :
          /\ ok => k = Len(fl)
          /\ ~ok => (k < Len(fl) \/ k = 0)
          /\ clock' = clock + 1
          /\ backups' = Append(backups, BackupInfo(clock', fl, k, local))
          /\ snap' = IF ok THEN "ok" ELSE "failed"
          /\ pc' = IF phase = "push" THEN "scan" ELSE "gitPull"
          /\ UNCHANGED result
    /\ UNCHANGED <<local, mirror, index, head, remote, base, confVars, op, phase, files,
                   conflicts, resolved, pullResult, pushResult, choices, preLocal,
                   preMirror, localWrites, mirrorWrites, transport, copies, commits,
                   pushCalled, lastOp, cleanPush, opsDone, debVars, watchVars, rc, mc, bk, pm>>

\* SyncEngine.createBackup(), first statement of push() and of pull():
\* k files are copied; it throws when a copy (or the scan, or mkdir) fails
createBackup ==
    /\ op # "none" /\ pc = "createBackup"
    /\ LET fl == scan(local, eligible) IN
       \E k \in 0..Len(fl), ok \in BOOLEAN :
          /\ ok => k = Len(fl)
          /\ ~ok => (k < Len(fl) \/ k = 0)
          /\ clock' = clock + 1
          /\ backups' = Append(backups, BackupInfo(clock', fl, k, local))
          /\ IF ok
             THEN /\ snap' = "ok"
                  /\ pc' = IF phase = "push" THEN "scan" ELSE "gitPull"
                  /\ UNCHANGED result
             ELSE /\ snap' = "failed"
                  /\ Return(Thrown("createBackup"))
    /\ UNCHANGED <<local, mirror, index, head, remote, base, confVars, op, phase, files,
                   conflicts, resolved, pullResult, pushResult, choices, preLocal,
                   preMirror, localWrites, mirrorWrites, transport, copies, commits,
                   pushCalled, lastOp, cleanPush, opsDone, debVars, watchVars, rc, mc, bk, pm>>

\* push(): scanner.scan()
PushScan ==
    /\ phase = "push" /\ pc = "scan"
    /\ \E ok \in BOOLEAN :
          IF ~ok THEN Return(Thrown("scan")) /\ UNCHANGED files
          ELSE LET fl == scan(local, eligible) IN
               /\ files' = fl
               /\ IF Len(fl) = 0
                  THEN Return(Res(TRUE, 0, NoCount, <<>>, <<>>, "No files to sync"))
                  ELSE pc' = "copyFilesToRepo" /\ UNCHANGED result
    /\ UNCHANGED <<fileVars, confVars, op, phase, conflicts, resolved, pullResult,
                   pushResult, histVars, debVars, watchVars, rc, mc, bk, clock, pm>>

\* push(): copyFilesToRepo(scanResult.files); the first failing copy throws
PushCopyFilesToRepo ==
    /\ phase = "push" /\ pc = "copyFilesToRepo"
    /\ \E k \in 0..Len(files) :
          /\ mirror' = CopyFiles(local, mirror, files, k)
          /\ mirrorWrites' = mirrorWrites \cup Range(Prefix(files, k))
          /\ copies' = copies + k
          /\ IF k = Len(files)
             THEN pc' = "addAll" /\ UNCHANGED result
             ELSE Return(Thrown("copyFileSync"))
    /\ UNCHANGED <<local, index, head, remote, base, backups, confVars, op, phase, files,
                   conflicts, resolved, pullResult, pushResult, choices, snap, preLocal,
                   preMirror, localWrites, transport, commits, pushCalled, lastOp,
                   cleanPush, opsDone, debVars, watchVars, rc, mc, bk, clock, pm>>

\* push(): git.addAll(); its boolean is not looked at
PushAddAll ==
    /\ phase = "push" /\ pc = "addAll"
    /\ \E ok \in BOOLEAN : index' = IF ok THEN mirror ELSE index
    /\ transport' = transport + 1
    /\ pc' = "hasChanges"
    /\ UNCHANGED <<local, mirror, head, remote, base, backups, confVars, op, phase, files,
                   conflicts, resolved, result, pullResult, pushResult, choices, snap,
                   preLocal, preMirror, localWrites, mirrorWrites, copies, commits,
                   pushCalled, lastOp, cleanPush, opsDone, debVars, watchVars, rc, mc, bk, clock, pm>>

\* GitManager.hasChanges(): status().files is not empty; false when status throws
hasChanges(ok) == ok /\ (mirror # head \/ index # head)

\* push(): git.hasChanges()
PushHasChanges ==
    /\ phase = "push" /\ pc = "hasChanges"
    /\ transport' = transport + 1
    /\ \E ok \in BOOLEAN :
          IF hasChanges(ok)
          THEN pc' = "commit" /\ UNCHANGED result
          ELSE Return(Res(TRUE, 0, NoCount, <<>>, <<>>, "No changes to push"))
    /\ UNCHANGED <<fileVars, confVars, op, phase, files, conflicts, resolved, pullResult,
                   pushResult, choices, snap, preLocal, preMirror, localWrites,
                   mirrorWrites, copies, commits, pushCalled, lastOp, cleanPush,
                   opsDone, debVars, watchVars, rc, mc, bk, clock, pm>>

\* push(): git.commit(message); null (a failure, or nothing staged) is not looked at
PushCommit ==
    /\ phase = "push" /\ pc = "commit"
    /\ transport' = transport + 1
    /\ \E ok \in BOOLEAN :
          IF ok /\ index # head
          THEN head' = index /\ commits' = commits + 1
          ELSE UNCHANGED <<head, commits>>
    /\ pc' = "gitPush"
    /\ UNCHANGED <<local, mirror, index, remote, base, backups, confVars, op, phase, files,
                   conflicts, resolved, result, pullResult, pushResult, choices, snap,
                   preLocal, preMirror, localWrites, mirrorWrites, copies, pushCalled,
                   lastOp, cleanPush, opsDone, debVars, watchVars, rc, mc, bk, clock, pm>>

\* push(): git.push('origin', branch); origin rejects a push that is behind it
PushGitPush ==
    /\ phase = "push" /\ pc = "gitPush"
    /\ transport' = transport + 1 /\ pushCalled' = TRUE
    /\ \E ok \in BOOLEAN :
          /\ ok => base = remote
          /\ IF ok
             THEN /\ remote' = head /\ base' = head
                  /\ Return(Res(TRUE, Len(files), NoCount, <<>>, <<>>, "Successfully pushed"))
             ELSE /\ UNCHANGED <<remote, base>>
                  /\ Return(Res(FALSE, NoCount, NoCount, <<>>,
                                <<"Failed to push to remote">>, "Failed to push to remote"))
    /\ UNCHANGED <<local, mirror, index, head, backups, confVars, op, phase, files,
                   conflicts, resolved, pullResult, pushResult, choices, snap, preLocal,
                   preMirror, localWrites, mirrorWrites, copies, commits, lastOp,
                   cleanPush, opsDone, debVars, watchVars, rc, mc, bk, clock, pm>>

\* pull() that copies the mirror's files although git.pull failed
PullGitPull_appliesAnyway ==
    /\ phase = "pull" /\ pc = "gitPull"
    /\ transport' = transport + 1
    /\ \E ok \in BOOLEAN :
          /\ ok => PullPossible(base, head, remote, mirror, index)
          /\ IF ok
             THEN LET m == Merge3(base, head, remote) IN
                  /\ head' = m /\ base' = remote
                  /\ mirror' = [p \in Paths |-> IF mirror[p] = head[p] THEN m[p] ELSE mirror[p]]
                  /\ index' = [p \in Paths |-> IF index[p] = head[p] THEN m[p] ELSE index[p]]
                  /\ mirrorWrites' = mirrorWrites \cup {p \in Paths : mirror'[p] # mirror[p]}
                  /\ pc' = "getRepoFiles" /\ UNCHANGED <<result, local, localWrites>>
             ELSE /\ UNCHANGED <<head, base, mirror, index, mirrorWrites>>
                  /\ local' = applyFilesToClaude(getRepoFiles(mirror), mirror, local,
                                                 Len(getRepoFiles(mirror)))
                  /\ localWrites' = localWrites \cup Range(getRepoFiles(mirror))
                  /\ Return(Res(FALSE, NoCount, NoCount, <<>>,
                                <<"Failed to pull from remote">>, "Failed to pull from remote"))
    /\ UNCHANGED <<remote, backups, confVars, op, phase, files, conflicts, resolved,
                   pullResult, pushResult, choices, snap, preLocal, preMirror,
                   copies, commits, pushCalled, lastOp, cleanPush, opsDone,
                   debVars, watchVars, rc, mc, bk, clock, pm>>

\* pull(): git.pull('origin', branch): fetch, then merge origin into the mirror
PullGitPull ==
    /\ phase = "pull" /\ pc = "gitPull"
    /\ transport' = transport + 1
    /\ \E ok \in BOOLEAN :
          /\ ok => PullPossible(base, head, remote, mirror, index)
          /\ IF ok
             THEN LET m == Merge3(base, head, remote) IN
                  /\ head' = m /\ base' = remote
                  /\ mirror' = [p \in Paths |-> IF mirror[p] = head[p] THEN m[p] ELSE mirror[p]]
                  /\ index' = [p \in Paths |-> IF index[p] = head[p] THEN m[p] ELSE index[p]]
                  /\ mirrorWrites' = mirrorWrites \cup {p \in Paths : mirror'[p] # mirror[p]}
                  /\ pc' = "getRepoFiles" /\ UNCHANGED result
             ELSE /\ UNCHANGED <<head, base, mirror, index, mirrorWrites>>
                  /\ Return(Res(FALSE, NoCount, NoCount, <<>>,
                                <<"Failed to pull from remote">>, "Failed to pull from remote"))
    /\ UNCHANGED <<local, remote, backups, confVars, op, phase, files, conflicts, resolved,
                   pullResult, pushResult, choices, snap, preLocal, preMirror, localWrites,
                   copies, commits, pushCalled, lastOp, cleanPush, opsDone,
                   debVars, watchVars, rc, mc, bk, clock, pm>>

\* pull(): getRepoFiles() and checkForConflicts(repoFiles)
PullCheckForConflicts ==
    /\ phase = "pull" /\ pc = "getRepoFiles"
    /\ \E ok \in BOOLEAN :
          IF ~ok THEN Return(Thrown("readFileSync")) /\ UNCHANGED <<files, conflicts>>
          ELSE LET fl == getRepoFiles(mirror)
                   cs == checkForConflicts(fl, local, mirror) IN
               /\ files' = fl /\ conflicts' = cs
               /\ pc' = IF Len(cs) > 0 THEN "resolveConflicts" ELSE "applyFilesToClaude"
               /\ UNCHANGED result
    /\ UNCHANGED <<fileVars, confVars, op, phase, resolved, pullResult, pushResult,
                   histVars, debVars, watchVars, rc, mc, bk, clock, pm>>

\* resolveConflicts writing each resolved file as soon as its conflict is resolved
PullResolveConflicts_eager ==
    /\ phase = "pull" /\ pc = "resolveConflicts"
    /\ LET c == conflicts[Len(resolved) + 1] IN
       \E lm \in MTimes \cup {NoTime}, rm \in MTimes \cup {NoTime},
          answer \in Answers(canMerge(c.path)) :
          LET r == resolveConflict(strategy, c, lm, rm, answer)
              e == resolveConflictsEntry(c, r) IN
          /\ resolved' = Append(resolved, e)
          /\ choices' = Append(choices, r.choice)
          /\ local' = IF e.resolved THEN [local EXCEPT ![c.path] = c.remoteContent] ELSE local
          /\ localWrites' = IF e.resolved THEN localWrites \cup {c.path} ELSE localWrites
          /\ pc' = IF Len(resolved) + 1 = Len(conflicts)
                   THEN "applyResolutions" ELSE "resolveConflicts"
          /\ UNCHANGED result
    /\ UNCHANGED <<mirror, index, head, remote, base, backups, confVars, op, phase, files,
                   conflicts, pullResult, pushResult,
                   snap, preLocal, preMirror, mirrorWrites, transport,
                   copies, commits, pushCalled, lastOp, cleanPush, opsDone,
                   debVars, watchVars, rc, mc, bk, clock, pm>>

\* pull(): one turn of the loop of resolver.resolveConflicts(conflicts);
\* the prompt of strategy `ask` may reject
PullResolveConflicts ==
    /\ phase = "pull" /\ pc = "resolveConflicts"
    /\ LET c == conflicts[Len(resolved) + 1] IN
       \/ \E lm \in MTimes \cup {NoTime}, rm \in MTimes \cup {NoTime},
             answer \in Answers(canMerge(c.path)) :
             LET r == resolveConflict(strategy, c, lm, rm, answer) IN
             /\ resolved' = Append(resolved, resolveConflictsEntry(c, r))
             /\ choices' = Append(choices, r.choice)
             /\ pc' = IF Len(resolved) + 1 = Len(conflicts)
                      THEN "applyResolutions" ELSE "resolveConflicts"
             /\ UNCHANGED result
       \/ /\ strategy = "ask"
          /\ Return(Thrown("prompt"))
          /\ UNCHANGED <<resolved, choices>>
    /\ UNCHANGED <<fileVars, confVars, op, phase, files, conflicts, pullResult, pushResult,
                   snap, preLocal, preMirror, localWrites, mirrorWrites, transport,
                   copies, commits, pushCalled, lastOp, cleanPush, opsDone,
                   debVars, watchVars, rc, mc, bk, clock, pm>>

Unresolved(rs) == Len(SelectSeq(rs, LAMBDA c : ~c.resolved))

UnresolvedMessage(n) ==
    (IF n = 1 THEN "1" ELSE IF n = 2 THEN "2" ELSE "n") \o " conflicts remain unresolved"

\* pull(): resolver.applyResolutions(resolved, claudeHome), then the count of
\* the unresolved records; the first failing write throws
PullApplyResolutions ==
    /\ phase = "pull" /\ pc = "applyResolutions"
    /\ \E k \in 0..Len(ToApply(resolved)) :
          /\ local' = applyResolutions(resolved, local, k)
          /\ localWrites' = localWrites \cup
                            {ToApply(resolved)[i].path : i \in 1..k}
          /\ IF k < Len(ToApply(resolved))
             THEN Return(Thrown("writeFileSync"))
             ELSE IF Unresolved(resolved) > 0
             THEN Return(Res(FALSE, NoCount, NoCount, <<>>,
                             <<UnresolvedMessage(Unresolved(resolved))>>,
                             "Pull completed with unresolved conflicts"))
             ELSE pc' = "applyFilesToClaude" /\ UNCHANGED result
    /\ UNCHANGED <<mirror, index, head, remote, base, backups, confVars, op, phase, files,
                   conflicts, resolved, pullResult, pushResult, choices, snap, preLocal,
                   preMirror, mirrorWrites, transport, copies, commits, pushCalled,
                   lastOp, cleanPush, opsDone, debVars, watchVars, rc, mc, bk, clock, pm>>

\* pull(): applyFilesToClaude(repoFiles); the first failing copy throws
PullApplyFilesToClaude ==
    /\ phase = "pull" /\ pc = "applyFilesToClaude"
    /\ \E k \in 0..Len(files) :
          /\ local' = applyFilesToClaude(files, mirror, local, k)
          /\ localWrites' = localWrites \cup
                            {p \in Range(Prefix(files, k)) : mirror[p] # Absent}
          /\ IF k < Len(files)
             THEN Return(Thrown("copyFileSync"))
             ELSE Return(Res(TRUE, NoCount, Len(files),
                             IF Len(conflicts) > 0 THEN conflicts ELSE <<>>,
                             <<>>, "Successfully pulled"))
    /\ UNCHANGED <<mirror, index, head, remote, base, backups, confVars, op, phase, files,
                   conflicts, resolved, pullResult, pushResult, choices, snap, preLocal,
                   preMirror, mirrorWrites, transport, copies, commits, pushCalled,
                   lastOp, cleanPush, opsDone, debVars, watchVars, rc, mc, bk, clock, pm>>

\* the operation is over: the caller has its result
EndOp ==
    /\ op' = "none" /\ phase' = "none" /\ pc' = "idle" /\ lastOp' = op
    /\ cleanPush' = (op = "push" /\ result'.success)

\* push() or pull() called by a command returns to it
Finish ==
    /\ op \in {"push", "pull"} /\ pc = "return"
    /\ UNCHANGED <<result, pullResult, pushResult>>
    /\ EndOp
    /\ UNCHANGED <<fileVars, confVars, files, conflicts, resolved, choices, snap,
                   preLocal, preMirror, localWrites, mirrorWrites, transport, copies,
                   commits, pushCalled, opsDone, debVars, watchVars, rc, mc, bk, clock, pm>>

\* sync() calling push() whatever pull() returned
SyncAfterPull_pushAnyway ==
    /\ op = "sync" /\ phase = "pull" /\ pc = "return"
    /\ pullResult' = result
    /\ BeginMethod("push")
    /\ UNCHANGED <<op, result, lastOp, cleanPush>>
    /\ UNCHANGED <<fileVars, confVars, pushResult, opsDone, debVars, watchVars, rc, mc, bk, clock, pm>>

\* sync(): pull() has returned; a failure with errors is returned as it is,
\* otherwise push() is called
SyncAfterPull ==
    /\ op = "sync" /\ phase = "pull" /\ pc = "return"
    /\ pullResult' = result
    /\ IF ~result.success /\ Len(result.errors) > 0
       THEN /\ UNCHANGED result
            /\ EndOp
            /\ UNCHANGED <<files, conflicts, resolved, choices, snap, preLocal,
                           preMirror, localWrites, mirrorWrites, transport, copies,
                           commits, pushCalled>>
       ELSE /\ BeginMethod("push")
            /\ UNCHANGED <<op, result, lastOp, cleanPush>>
    /\ UNCHANGED <<fileVars, confVars, pushResult, opsDone, debVars, watchVars, rc, mc, bk, clock, pm>>

\* sync(): push() has returned; its failure is returned as it is
SyncAfterPush ==
    /\ op = "sync" /\ phase = "push" /\ pc = "return"
    /\ pushResult' = result
    /\ result' = IF ~result.success THEN result
                 ELSE Res(TRUE, result.pushed, pullResult.pulled, <<>>, <<>>,
                          "Sync completed successfully")
    /\ EndOp
    /\ UNCHANGED <<fileVars, confVars, files, conflicts, resolved, pullResult, choices,
                   snap, preLocal, preMirror, localWrites, mirrorWrites, transport,
                   copies, commits, pushCalled, opsDone, debVars, watchVars, rc, mc, bk, clock, pm>>

----------------------------------------------------------------------------
(* The engine driven from the command line *)

Next ==
    \/ \E o \in {"push", "pull", "sync"} : StartOp(o)
    \/ createBackup
    \/ PushScan
    \/ PushCopyFilesToRepo
    \/ PushAddAll
    \/ PushHasChanges
    \/ PushCommit
    \/ PushGitPush
    \/ PullGitPull
    \/ PullCheckForConflicts
    \/ PullResolveConflicts
    \/ PullApplyResolutions
    \/ PullApplyFilesToClaude
    \/ Finish
    \/ SyncAfterPull
    \/ SyncAfterPush

Spec == Init /\ [][Next]_vars

----------------------------------------------------------------------------
(* helpers.debounce(func, wait): the function it returns, and its timer *)

Args   == {"x", "y"}      \* arguments a caller may pass
NoArgs == "()"            \* the watcher calls debouncedSync()

\* executedFunction keeping the arguments of the first call of a pending timer
executedFunction_firstArgs(args) ==
    /\ timeout' = TRUE /\ remaining' = wait
    /\ pendingArgs' = IF timeout THEN pendingArgs ELSE args
    /\ lastArgs' = args /\ calls' = calls + 1
    /\ bursts' = IF timeout THEN bursts ELSE bursts + 1
    /\ quiet' = IF calls = 0 \/ sinceCall >= wait THEN quiet + 1 ELSE quiet
    /\ sinceCall' = 0
    /\ UNCHANGED <<wait, invoked>>

\* executedFunction(...args): clearTimeout(timeout); timeout = setTimeout(later, wait)
executedFunction(args) ==
    /\ timeout' = TRUE /\ remaining' = wait /\ pendingArgs' = args
    /\ lastArgs' = args /\ calls' = calls + 1
    /\ bursts' = IF timeout THEN bursts ELSE bursts + 1
    /\ quiet' = IF calls = 0 \/ sinceCall >= wait THEN quiet + 1 ELSE quiet
    /\ sinceCall' = 0
    /\ UNCHANGED <<wait, invoked>>

\* later(), run by the timer no sooner than wait after it was set
later ==
    /\ timeout /\ remaining = 0
    /\ timeout' = FALSE /\ pendingArgs' = Null
    /\ invoked' = Append(invoked, pendingArgs)
    /\ UNCHANGED <<remaining, wait, lastArgs, bursts, calls, sinceCall, quiet>>

\* one unit of time passes while the timer is pending
Tick ==
    /\ timeout /\ remaining > 0
    /\ remaining' = remaining - 1
    /\ sinceCall' = sinceCall + 1
    /\ UNCHANGED <<timeout, pendingArgs, wait, lastArgs, invoked, bursts, calls, quiet>>
    /\ UNCHANGED <<fileVars, confVars, posVars, histVars, watchVars, rc, mc, bk, clock, pm>>

\* a caller calls the debounced function
DebounceCall(args) ==
    /\ calls < MaxEvents
    /\ executedFunction(args)
    /\ UNCHANGED <<fileVars, confVars, posVars, histVars, watchVars, rc, mc, bk, clock, pm>>

\* the timer runs later(), which calls func(...args)
DebounceLater ==
    /\ later
    /\ UNCHANGED <<fileVars, confVars, posVars, histVars, watchVars, rc, mc, bk, clock, pm>>

\* an engine at rest, for the specifications that do not run it
InitRest ==
    /\ local = NoTree /\ remote = NoTree /\ head = NoTree
    /\ mirror = NoTree /\ index = NoTree /\ base = NoTree /\ backups = <<>>
    /\ strategy = "ask" /\ eligible = Paths /\ config = InitializedConfig
    /\ op = "none" /\ phase = "none" /\ pc = "idle"
    /\ files = <<>> /\ conflicts = <<>> /\ resolved = <<>> /\ choices = <<>>
    /\ result = NoResult /\ pullResult = NoResult /\ pushResult = NoResult
    /\ snap = "none" /\ preLocal = NoTree /\ preMirror = NoTree
    /\ localWrites = {} /\ mirrorWrites = {}
    /\ transport = 0 /\ copies = 0 /\ commits = 0 /\ pushCalled = FALSE
    /\ lastOp = "none" /\ cleanPush = FALSE /\ opsDone = 0

InitDebounce ==
    /\ InitRest /\ InitWatcher /\ InitResolver
    /\ wait \in 1..MaxWait

NextDebounce ==
    \/ \E a \in Args : DebounceCall(a)
    \/ Tick
    \/ DebounceLater

SpecDebounce == InitDebounce /\ [][NextDebounce]_vars

----------------------------------------------------------------------------
(* commands/watch.ts: the watcher *)

\* the callback without its busy guard
debouncedSync_noGuard ==
    /\ syncInProgress' = TRUE
    /\ started' = started + 1 /\ inFlight' = inFlight + 1
    /\ lastTrigger' = "started"
    /\ UNCHANGED skipped
    /\ op' = "sync" /\ BeginMethod("pull")
    /\ result' = NoResult /\ pullResult' = NoResult /\ pushResult' = NoResult

\* the callback given to debounce, up to its await of engine.sync()
debouncedSync ==
    IF syncInProgress
    THEN /\ skipped' = skipped + 1 /\ lastTrigger' = "skipped"
         /\ UNCHANGED <<syncInProgress, inFlight, started>>
         /\ UNCHANGED <<posVars, choices, snap, preLocal, preMirror, localWrites,
                        mirrorWrites, transport, copies, commits, pushCalled>>
    ELSE /\ syncInProgress' = TRUE
         /\ started' = started + 1 /\ inFlight' = inFlight + 1
         /\ lastTrigger' = "started"
         /\ UNCHANGED skipped
         /\ op' = "sync" /\ BeginMethod("pull")
         /\ result' = NoResult /\ pullResult' = NoResult /\ pushResult' = NoResult

\* chokidar reports add, change or unlink: the handler calls debouncedSync()
WatchFileEvent(kind) ==
    /\ calls < MaxEvents
    /\ executedFunction(NoArgs)
    /\ UNCHANGED <<fileVars, confVars, posVars, histVars, watchVars, rc, mc, bk, clock, pm>>

\* the debounce timer fires: later() calls the callback
WatchTrigger ==
    /\ later
    /\ debouncedSync
    /\ UNCHANGED <<fileVars, confVars, lastOp, cleanPush, opsDone, rc, mc, bk, clock, pm>>

\* a watcher that queues: when the sync settles and a trigger was skipped
\* meanwhile, it starts the next sync at once
WatchSyncSettled_queued ==
    /\ syncInProgress /\ inFlight > 0 /\ op = "none"
    /\ IF lastTrigger = "skipped"
       THEN /\ started' = started + 1 /\ lastTrigger' = "started"
            /\ op' = "sync" /\ BeginMethod("pull")
            /\ result' = NoResult /\ pullResult' = NoResult /\ pushResult' = NoResult
            /\ UNCHANGED <<syncInProgress, inFlight, skipped>>
       ELSE /\ syncInProgress' = FALSE /\ inFlight' = inFlight - 1
            /\ UNCHANGED <<started, skipped, lastTrigger>>
            /\ UNCHANGED <<posVars, choices, snap, preLocal, preMirror, localWrites,
                           mirrorWrites, transport, copies, commits, pushCalled>>
    /\ UNCHANGED <<fileVars, confVars, lastOp, cleanPush, opsDone, debVars, rc, mc, bk, clock, pm>>

\* engine.sync() has returned: the result is reported, finally releases the guard
WatchSyncSettled ==
    /\ syncInProgress /\ inFlight > 0 /\ op = "none"
    /\ syncInProgress' = FALSE /\ inFlight' = inFlight - 1
    /\ UNCHANGED <<started, skipped, lastTrigger>>
    /\ UNCHANGED <<fileVars, confVars, posVars, histVars, debVars, rc, mc, bk, clock, pm>>

\* a callback with catch but no finally: after a throw the guard stays held
WatchSyncThrows_guardHeld ==
    /\ syncInProgress /\ inFlight > 0
    /\ op = "sync" /\ phase = "pull" /\ pc = "createBackup"
    /\ op' = "none" /\ phase' = "none" /\ pc' = "idle" /\ lastOp' = "sync"
    /\ syncInProgress' = TRUE /\ inFlight' = inFlight - 1
    /\ UNCHANGED <<started, skipped, lastTrigger>>
    /\ UNCHANGED <<fileVars, confVars, files, conflicts, resolved, result, pullResult,
                   pushResult, choices, snap, preLocal, preMirror, localWrites,
                   mirrorWrites, transport, copies, commits, pushCalled, cleanPush,
                   opsDone, debVars, rc, mc, bk, clock, pm>>

\* engine.sync() throws before its try block: catch reports, finally releases
WatchSyncThrows ==
    /\ syncInProgress /\ inFlight > 0
    /\ op = "sync" /\ phase = "pull" /\ pc = "createBackup"
    /\ op' = "none" /\ phase' = "none" /\ pc' = "idle" /\ lastOp' = "sync"
    /\ syncInProgress' = FALSE /\ inFlight' = inFlight - 1
    /\ UNCHANGED <<started, skipped, lastTrigger>>
    /\ UNCHANGED <<fileVars, confVars, files, conflicts, resolved, result, pullResult,
                   pushResult, choices, snap, preLocal, preMirror, localWrites,
                   mirrorWrites, transport, copies, commits, pushCalled, cleanPush,
                   opsDone, debVars, rc, mc, bk, clock, pm>>

InitWatch ==
    /\ local = [p \in Paths |-> "ja"]
    /\ remote \in {NoTree, [p \in Paths |-> IF p = "settings.json" THEN "jb" ELSE Absent]}
    /\ head = remote /\ mirror = head /\ index = head /\ base = head
    /\ backups = <<>>
    /\ InitEngine /\ strategy \in {"ask", "remote"} /\ eligible = Paths
    /\ config = InitializedConfig
    /\ InitWatcher /\ InitResolver
    /\ wait \in 1..MaxWait

NextWatch ==
    \/ \E kind \in {"add", "change", "unlink"} : WatchFileEvent(kind)
    \/ Tick
    \/ WatchTrigger
    \/ WatchSyncSettled
    \/ WatchSyncThrows
    \/ createBackup
    \/ PushScan
    \/ PushCopyFilesToRepo
    \/ PushAddAll
    \/ PushHasChanges
    \/ PushCommit
    \/ PushGitPush
    \/ PullGitPull
    \/ PullCheckForConflicts
    \/ PullResolveConflicts
    \/ PullApplyResolutions
    \/ PullApplyFilesToClaude
    \/ SyncAfterPull
    \/ SyncAfterPush

SpecWatch == InitWatch /\ [][NextWatch]_vars

\* once engine.sync() has returned, the continuation of the await runs
InitWatchFair == InitWatch /\ wait = 1

SpecWatchFair == InitWatchFair /\ [][NextWatch]_vars /\ WF_vars(WatchSyncSettled)

----------------------------------------------------------------------------
(* Snapshots: createBackup, listBackups, restoreBackup and `backup clean` *)

\* listBackups without its sort: the directories in readdir order
listBackups_unsorted(dir) == dir

\* Array.prototype.sort with (a, b) => b.timestamp - a.timestamp: b is placed
\* after the entries that are not older than it
RECURSIVE InsertNewestFirst(_, _)
InsertNewestFirst(b, sorted) ==
    IF sorted = <<>> THEN <<b>>
    ELSE IF Head(sorted).timestamp >= b.timestamp
         THEN <<Head(sorted)>> \o InsertNewestFirst(b, Tail(sorted))
         ELSE <<b>> \o sorted

\* SyncEngine.listBackups(): the backup-* directories of backupDir, newest first
RECURSIVE listBackups(_)
listBackups(dir) ==
    IF dir = <<>> THEN <<>>
    ELSE InsertNewestFirst(dir[Len(dir)], listBackups(Prefix(dir, Len(dir) - 1)))

\* restoreBackup's restoreFiles(backupPath): the live tree after the first k
\* files of the snapshot were copied over it
restoreFiles(b, tree, k) == CopyFiles(b.tree, tree, getRepoFiles(b.tree), k)

LastCall == bk[Len(bk)]
NoCallYet == IF bk = <<>> THEN TRUE ELSE LastCall.fn = "createBackup"

\* engine.createBackup() called by `backup create`: it returns the BackupInfo,
\* or throws and leaves the directory with the files copied so far
CreateBackupCall ==
    /\ NoCallYet /\ clock < MaxSnapshots
    /\ LET fl == scan(local, eligible) IN
       \E k \in 0..Len(fl), ok \in BOOLEAN :
          /\ ok => k = Len(fl)
          /\ ~ok => (k < Len(fl) \/ k = 0)
          /\ clock' = clock + 1
          /\ backups' = Append(backups, BackupInfo(clock', fl, k, local))
          /\ bk' = Append(bk, IF ok
                               THEN [fn |-> "createBackup", returned |-> TRUE,
                                     path |-> clock', files |-> fl, live |-> local]
                               ELSE [fn |-> "createBackup", returned |-> FALSE,
                                     path |-> Null, files |-> <<>>, live |-> NoTree])
    /\ UNCHANGED <<local, mirror, index, head, remote, base, confVars, posVars, histVars,
                   debVars, watchVars, rc, mc, pm>>

\* the user changes, creates or deletes a file of the live local tree
EditLocal(p, c) ==
    /\ NoCallYet /\ local[p] # c
    /\ local' = [local EXCEPT ![p] = c]
    /\ UNCHANGED <<mirror, index, head, remote, base, backups, confVars, posVars, histVars,
                   debVars, watchVars, rc, mc, bk, clock, pm>>

\* engine.restoreBackup(backupPath)
RestoreBackupCall(backupPath) ==
    /\ NoCallYet
    /\ LET found == {b \in Range(backups) : b.name = backupPath} IN
       IF found = {}
       THEN /\ bk' = Append(bk, [fn |-> "restoreBackup", path |-> backupPath,
                                  existed |-> FALSE, returned |-> FALSE, before |-> local])
            /\ UNCHANGED local
       ELSE LET b == CHOOSE x \in found : TRUE
                n == Len(getRepoFiles(b.tree))
            IN  \E k \in 0..n, ok \in BOOLEAN :
                   /\ ok => k = n
                   /\ ~ok => (k < n \/ k = 0)
                   /\ local' = restoreFiles(b, local, k)
                   /\ bk' = Append(bk, [fn |-> "restoreBackup", path |-> backupPath,
                                        existed |-> TRUE, returned |-> ok, before |-> local])
    /\ UNCHANGED <<mirror, index, head, remote, base, backups, confVars, posVars, histVars,
                   debVars, watchVars, rc, mc, clock, pm>>

\* `backup clean --keep <keep>`: confirm is --force or the answer to 'Continue?';
\* rmSync removes each directory of toDelete, or throws for those of failed
BackupClean(keep, confirm) ==
    /\ NoCallYet
    /\ LET listed == listBackups(backups)
           toDelete == IF Len(listed) <= keep THEN <<>>
                       ELSE SubSeq(listed, keep + 1, Len(listed))
       IN  \E failed \in SUBSET {b.name : b \in Range(toDelete)} :
              LET removed == IF confirm THEN {b.name : b \in Range(toDelete)} \ failed
                             ELSE {}
              IN  /\ ~confirm => failed = {}
                  /\ backups' = SelectSeq(backups, LAMBDA b : b.name \notin removed)
                  /\ bk' = Append(bk, [fn |-> "clean", keep |-> keep, confirmed |-> confirm,
                                       listed |-> listed, errors |-> failed])
    /\ UNCHANGED <<local, mirror, index, head, remote, base, confVars, posVars, histVars,
                   debVars, watchVars, rc, mc, clock, pm>>

InitBackup ==
    /\ local = [p \in Paths |-> "ja"]
    /\ remote = NoTree /\ head = NoTree /\ mirror = NoTree /\ index = NoTree /\ base = NoTree
    /\ backups = <<>>
    /\ InitEngine /\ strategy = "ask" /\ config = InitializedConfig
    /\ InitWatcher /\ InitResolver
    /\ wait = 1

NextBackup ==
    \/ CreateBackupCall
    \/ \E p \in Paths, c \in TreeContents \cup {Absent} : EditLocal(p, c)
    \/ \E backupPath \in 1..(MaxSnapshots + 1) : RestoreBackupCall(backupPath)
    \/ \E keep \in 0..MaxSnapshots, confirm \in BOOLEAN : BackupClean(keep, confirm)

SpecBackup == InitBackup /\ [][NextBackup]_vars

----------------------------------------------------------------------------
(* utils/helpers.ts: matchesPattern; paths and patterns are sequences of characters *)

\* the match of `^regex$` for the regex minimatch builds from a glob: * became
\* .* (and ** too), ? became . and every other character stands for itself
RECURSIVE GlobTest(_, _)
GlobTest(filePath, glob) ==
    IF glob = <<>> THEN filePath = <<>>
    ELSE IF Head(glob) = "*"
    THEN GlobTest(filePath, Tail(glob))
         \/ (filePath # <<>> /\ GlobTest(Tail(filePath), glob))
    ELSE /\ filePath # <<>>
         /\ (Head(glob) = "?" \/ Head(glob) = Head(filePath))
         /\ GlobTest(Tail(filePath), Tail(glob))

\* minimatch(filePath, pattern): a pattern that ends with / also matches below it
minimatch(filePath, pattern) ==
    GlobTest(filePath,
             IF pattern # <<>> /\ pattern[Len(pattern)] = "/" THEN pattern \o <<"*">>
             ELSE pattern)

\* matchesPattern(filePath, patterns): the first pattern that matches decides
\* (the paths here hold no backslash to normalise)
RECURSIVE matchesPattern(_, _)
matchesPattern(filePath, patterns) ==
    IF patterns = <<>> THEN FALSE
    ELSE LET pattern == Head(patterns) IN
         IF pattern # <<>> /\ Head(pattern) = "!"
         THEN IF minimatch(filePath, Tail(pattern)) THEN FALSE
              ELSE matchesPattern(filePath, Tail(patterns))
         ELSE IF minimatch(filePath, pattern) THEN TRUE
              ELSE matchesPattern(filePath, Tail(patterns))

FilePaths ==
    {<<"s", "e", "c", "r", "e", "t", ".", "j", "s", "o", "n">>,
     <<"p", "u", "b", "l", "i", "c", ".", "j", "s", "o", "n">>,
     <<"n", "o", "t", "e", "s", ".", "t", "x", "t">>}
Patterns ==
    {<<"*", ".", "j", "s", "o", "n">>,
     <<"!", "s", "e", "c", "r", "e", "t", ".", "j", "s", "o", "n">>,
     <<"s", "e", "c", "r", "e", "t", ".", "j", "s", "o", "n">>,
     <<"!", "*", ".", "t", "x", "t">>}
PatternLists == UNION {[1..n -> Patterns] : n \in 0..MaxPatterns}

\* a caller runs matchesPattern(filePath, patterns)
MatchesPatternCall ==
    /\ pm = <<>>
    /\ \E filePath \in FilePaths, patterns \in PatternLists :
          pm' = <<[filePath |-> filePath, patterns |-> patterns,
                   out |-> matchesPattern(filePath, patterns)]>>
    /\ UNCHANGED <<fileVars, confVars, posVars, histVars, debVars, watchVars, rc, mc, bk, clock>>

InitMatch ==
    /\ InitRest /\ InitWatcher /\ InitResolver
    /\ wait = 1

SpecMatch == InitMatch /\ [][MatchesPatternCall]_vars

----------------------------------------------------------------------------
(* The ways an operation is started: the commands and the watcher *)

\* the SyncConfig that loadConfig() returns
LoadedConfig ==
    [repository |-> config.repository, branch |-> config.branch,
     syncIntervalMinutes |-> config.syncIntervalMinutes, conflictStrategy |-> strategy]

validateConfig(cfg) ==
    LET errors ==
            (IF cfg.repository = "" THEN <<"Repository URL is required">> ELSE <<>>)
         \o (IF cfg.branch = "" THEN <<"Branch name is required">> ELSE <<>>)
         \o (IF cfg.syncIntervalMinutes < 1
             THEN <<"Sync interval must be at least 1 minute">> ELSE <<>>)
         \o (IF cfg.conflictStrategy \notin {"ask", "local", "remote", "newest"}
             THEN <<"Invalid conflict strategy">> ELSE <<>>)
    IN  [valid |-> Len(errors) = 0, errors |-> errors]

\* the action of the pull, push and sync commands: validate, then call the engine
RunCommand(o) ==
    /\ op = "none" /\ ~syncInProgress /\ opsDone < MaxOps
    /\ IF validateConfig(LoadedConfig).valid
       THEN StartOp(o)
       ELSE /\ opsDone' = opsDone + 1     \* 'Invalid configuration:' and return
            /\ UNCHANGED <<fileVars, confVars, posVars, choices, snap, preLocal, preMirror,
                           localWrites, mirrorWrites, transport, copies, commits,
                           pushCalled, lastOp, cleanPush, debVars, watchVars, rc, mc, bk, clock, pm>>

\* the watcher's callback runs (the timer that delays it is left out here)
WatchCallback ==
    /\ opsDone < MaxOps /\ opsDone' = opsDone + 1
    /\ debouncedSync
    /\ UNCHANGED <<fileVars, confVars, lastOp, cleanPush, debVars, rc, mc, bk, clock, pm>>

\* configurations whose fields the engine's calls do not depend on
Configs ==
    {[InitializedConfig EXCEPT !.syncIntervalMinutes = i] : i \in {0, DefaultInterval}}

InitEntry ==
    /\ local = [p \in Paths |-> "ja"]
    /\ remote \in {NoTree, [p \in Paths |-> IF p = "settings.json" THEN "jb" ELSE Absent]}
    /\ head = remote /\ mirror = head /\ index = head /\ base = head
    /\ backups = <<>>
    /\ InitEngine /\ strategy \in {"ask", "remote"} /\ eligible = Paths
    /\ config \in Configs
    /\ InitWatcher /\ InitResolver
    /\ wait = 1

NextEntry ==
    \/ \E o \in {"push", "pull", "sync"} : RunCommand(o)
    \/ WatchCallback
    \/ WatchSyncSettled
    \/ WatchSyncThrows
    \/ createBackup
    \/ PushScan
    \/ PushCopyFilesToRepo
    \/ PushAddAll
    \/ PushHasChanges
    \/ PushCommit
    \/ PushGitPush
    \/ PullGitPull
    \/ PullCheckForConflicts
    \/ PullResolveConflicts
    \/ PullApplyResolutions
    \/ PullApplyFilesToClaude
    \/ Finish
    \/ SyncAfterPull
    \/ SyncAfterPush

SpecEntry == InitEntry /\ [][NextEntry]_vars

----------------------------------------------------------------------------
(* The resolver taken alone: resolveConflict on every input *)

ResolveConflictCall ==
    /\ rc = <<>>
    /\ \E strat \in Strategies, path \in Paths, lc \in Contents, rmc \in Contents,
          lm \in MTimes \cup {NoTime}, rm \in MTimes \cup {NoTime},
          answer \in {"local", "remote", "merge", "skip"} :
          LET c == [path |-> path, localContent |-> lc, remoteContent |-> rmc]
              r == resolveConflict(strat, c, lm, rm, answer)
          IN  /\ lc # rmc
              /\ answer \in Answers(canMerge(path))
              /\ rc' = <<[strategy |-> strat, conflict |-> c, localMtime |-> lm,
                          remoteMtime |-> rm, answer |-> answer, result |-> r,
                          entry |-> resolveConflictsEntry(c, r)]>>
    /\ UNCHANGED <<fileVars, confVars, posVars, histVars, debVars, watchVars, mc, bk, clock, pm>>

InitResolve ==
    /\ InitRest /\ InitWatcher /\ InitResolver
    /\ wait = 1

SpecResolve == InitResolve /\ [][ResolveConflictCall]_vars

----------------------------------------------------------------------------
(* core/merger.ts: JSON documents, mergeJson and threeWayMerge *)

\* A JSON value: a number, or an object whose members keep their order
Num(n)  == [t |-> "number", n |-> n, kv |-> <<>>]
Obj(kv) == [t |-> "object", n |-> 0, kv |-> kv]
Member(k, v) == [k |-> k, v |-> v]

\* Merger.isPrimitive(value)
isPrimitive(value) == value.t # "object"

\* Object.keys(o), `key in o` and o[key]
Keys(o) == [i \in 1..Len(o.kv) |-> o.kv[i].k]
Has(o, key) == \E i \in 1..Len(o.kv) : o.kv[i].k = key
Get(o, key) == o.kv[CHOOSE i \in 1..Len(o.kv) : o.kv[i].k = key].v

\* [...path, key].join('.')
JoinPath(path, key) == IF path = "" THEN key ELSE path \o "." \o key

RECURSIVE ConcatAll(_)
ConcatAll(ss) == IF ss = <<>> THEN <<>> ELSE Head(ss) \o ConcatAll(Tail(ss))

RECURSIVE JoinStrings(_)
JoinStrings(ss) == IF ss = <<>> THEN "" ELSE Head(ss) \o JoinStrings(Tail(ss))

\* JSON.stringify(value): the members are written in the object's own order
RECURSIVE stringify(_)
stringify(value) ==
    IF isPrimitive(value) THEN ToString(value.n)
    ELSE LET part(i) == (IF i > 1 THEN "," ELSE "") \o "\"" \o value.kv[i].k \o "\":"
                        \o stringify(value.kv[i].v)
         IN  "{" \o JoinStrings([i \in 1..Len(value.kv) |-> part(i)]) \o "}"

\* resolveConflict with its branches exchanged
MergerResolveConflict_swapped(strat, localValue, remoteValue) ==
    CASE strat = "local"  -> remoteValue
      [] OTHER -> localValue

\* Merger.resolveConflict(local, remote, path) of the merger
MergerResolveConflict(strat, localValue, remoteValue) ==
    CASE strat = "local"  -> localValue
      [] strat = "remote" -> remoteValue
      [] strat = "newest" -> remoteValue
      [] OTHER -> remoteValue

\* deepMergeWithConflicts that resolves a type mismatch without reporting it
RECURSIVE deepMergeWithConflicts_mismatchSilent(_, _, _, _)
deepMergeWithConflicts_mismatchSilent(strat, localValue, remoteValue, path) ==
    IF isPrimitive(localValue) /\ isPrimitive(remoteValue)
    THEN IF localValue # remoteValue
         THEN [result |-> MergerResolveConflict(strat, localValue, remoteValue), conflicts |-> <<path>>]
         ELSE [result |-> localValue, conflicts |-> <<>>]
    ELSE IF isPrimitive(localValue) \/ isPrimitive(remoteValue)
    THEN [result |-> MergerResolveConflict(strat, localValue, remoteValue), conflicts |-> <<>>]
    ELSE LET allKeys == Keys(localValue) \o SelectSeq(Keys(remoteValue), LAMBDA k : ~Has(localValue, k))
             sub(k) == deepMergeWithConflicts_mismatchSilent(strat, Get(localValue, k), Get(remoteValue, k),
                                              JoinPath(path, k))
             value(k) == IF ~Has(localValue, k) THEN Get(remoteValue, k)
                         ELSE IF ~Has(remoteValue, k) THEN Get(localValue, k)
                         ELSE sub(k).result
             pushed(k) == IF Has(localValue, k) /\ Has(remoteValue, k) THEN sub(k).conflicts ELSE <<>>
         IN  [result |-> Obj([i \in 1..Len(allKeys) |-> Member(allKeys[i], value(allKeys[i]))]),
              conflicts |-> ConcatAll([i \in 1..Len(allKeys) |-> pushed(allKeys[i])])]

\* Merger.deepMergeWithConflicts(local, remote, path, conflicts):
\* the value returned and the paths pushed to conflicts, in order
RECURSIVE deepMergeWithConflicts(_, _, _, _)
deepMergeWithConflicts(strat, localValue, remoteValue, path) ==
    IF isPrimitive(localValue) /\ isPrimitive(remoteValue)
    THEN IF localValue # remoteValue
         THEN [result |-> MergerResolveConflict(strat, localValue, remoteValue), conflicts |-> <<path>>]
         ELSE [result |-> localValue, conflicts |-> <<>>]
    ELSE IF isPrimitive(localValue) \/ isPrimitive(remoteValue)
    THEN [result |-> MergerResolveConflict(strat, localValue, remoteValue), conflicts |-> <<path>>]
    ELSE LET allKeys == Keys(localValue) \o SelectSeq(Keys(remoteValue), LAMBDA k : ~Has(localValue, k))
             sub(k) == deepMergeWithConflicts(strat, Get(localValue, k), Get(remoteValue, k),
                                              JoinPath(path, k))
             value(k) == IF ~Has(localValue, k) THEN Get(remoteValue, k)
                         ELSE IF ~Has(remoteValue, k) THEN Get(localValue, k)
                         ELSE sub(k).result
             pushed(k) == IF Has(localValue, k) /\ Has(remoteValue, k) THEN sub(k).conflicts ELSE <<>>
         IN  [result |-> Obj([i \in 1..Len(allKeys) |-> Member(allKeys[i], value(allKeys[i]))]),
              conflicts |-> ConcatAll([i \in 1..Len(allKeys) |-> pushed(allKeys[i])])]

\* mergeJson that overwrites: the remote document, nothing reported
mergeJson_takeRemote(strat, localValue, remoteValue) ==
    [result |-> remoteValue, conflicts |-> <<>>, merged |-> TRUE]

\* Merger.mergeJson(local, remote)
mergeJson(strat, localValue, remoteValue) ==
    LET d == deepMergeWithConflicts(strat, localValue, remoteValue, "")
    IN  [result |-> d.result, conflicts |-> d.conflicts,
         merged |-> (Len(d.conflicts) = 0 \/ strat # "ask")]

\* threeWayMerge that keeps the base when both sides changed
threeWayMerge_keepBase(strat, baseValue, localValue, remoteValue) ==
    LET localChanged  == stringify(localValue) # stringify(baseValue)
        remoteChanged == stringify(remoteValue) # stringify(baseValue)
    IN  IF ~localChanged THEN [result |-> remoteValue, conflicts |-> <<>>, merged |-> TRUE]
        ELSE IF ~remoteChanged
        THEN [result |-> localValue, conflicts |-> <<>>, merged |-> TRUE]
        ELSE [result |-> baseValue, conflicts |-> <<>>, merged |-> TRUE]

\* threeWayMerge that lets the remote side win when both sides changed
threeWayMerge_remoteWins(strat, baseValue, localValue, remoteValue) ==
    LET localChanged  == stringify(localValue) # stringify(baseValue)
        remoteChanged == stringify(remoteValue) # stringify(baseValue)
    IN  IF ~localChanged THEN [result |-> remoteValue, conflicts |-> <<>>, merged |-> TRUE]
        ELSE IF ~remoteChanged
        THEN [result |-> localValue, conflicts |-> <<>>, merged |-> TRUE]
        ELSE [result |-> remoteValue, conflicts |-> <<>>, merged |-> TRUE]

\* Merger.threeWayMerge(base, local, remote)
threeWayMerge(strat, baseValue, localValue, remoteValue) ==
    LET localChanged  == stringify(localValue) # stringify(baseValue)
        remoteChanged == stringify(remoteValue) # stringify(baseValue)
        d == deepMergeWithConflicts(strat, localValue, remoteValue, "")
    IN  IF ~localChanged /\ ~remoteChanged
        THEN [result |-> baseValue, conflicts |-> <<>>, merged |-> TRUE]
        ELSE IF ~localChanged
        THEN [result |-> remoteValue, conflicts |-> <<>>, merged |-> TRUE]
        ELSE IF ~remoteChanged
        THEN [result |-> localValue, conflicts |-> <<>>, merged |-> TRUE]
        ELSE [result |-> d.result, conflicts |-> d.conflicts,
              merged |-> (Len(d.conflicts) = 0)]

\* the documents the merger is run on. mergeJson: numbers under "a" and "c", a
\* number or a nested object under "b", members in one order. threeWayMerge:
\* a number under "a", a nested object under "b", members in either order.
Leaves == {Num(n) : n \in 1..MaxLeaf}
Nested == {Obj(<<Member("x", v)>>) : v \in {Num(1), Num(2)}}
PairValues   == [key \in {"a", "b", "c"} |-> IF key = "b" THEN Leaves \cup Nested ELSE Leaves]
TripleValues == [key \in {"a", "b"} |-> IF key = "b" THEN Nested ELSE Leaves]
DocsOver(ks, values) ==
    {Obj([i \in 1..Len(ks) |-> Member(ks[i], f[i])]) :
        f \in {g \in [1..Len(ks) -> Leaves \cup Nested] :
                  \A i \in 1..Len(ks) : g[i] \in values[ks[i]]}}
PairDocs ==
    UNION {DocsOver(ks, PairValues) :
              ks \in {<<>>, <<"a">>, <<"b">>, <<"c">>, <<"a", "b">>, <<"a", "c">>,
                      <<"b", "c">>, <<"a", "b", "c">>}}
TripleDocs ==
    UNION {DocsOver(ks, TripleValues) :
              ks \in {<<>>, <<"a">>, <<"b">>, <<"a", "b">>, <<"b", "a">>}}

\* a caller runs mergeJson(local, remote) on a merger built with strategy strat
MergeJsonCall ==
    /\ mc = <<>>
    /\ \E strat \in Strategies, l \in PairDocs, r \in PairDocs :
          mc' = <<[fn |-> "mergeJson", strategy |-> strat, local |-> l, remote |-> r,
                   out |-> mergeJson(strat, l, r)]>>
    /\ UNCHANGED <<fileVars, confVars, posVars, histVars, debVars, watchVars, rc, bk, clock, pm>>

\* a caller runs threeWayMerge(base, local, remote)
ThreeWayMergeCall ==
    /\ mc = <<>>
    /\ \E strat \in Strategies, b \in TripleDocs, l \in TripleDocs, r \in TripleDocs :
          mc' = <<[fn |-> "threeWayMerge", strategy |-> strat, base |-> b, local |-> l,
                   remote |-> r, out |-> threeWayMerge(strat, b, l, r)]>>
    /\ UNCHANGED <<fileVars, confVars, posVars, histVars, debVars, watchVars, rc, bk, clock, pm>>

\* ---- mergeSettings: key names are sequences of characters

\* String.prototype.toLowerCase on the letters the names below use
toLowerCase(name) ==
    [i \in 1..Len(name) |->
        CASE name[i] = "K" -> "k"
          [] name[i] = "T" -> "t"
          [] OTHER -> name[i]]

\* String.prototype.includes
includes(name, part) ==
    \E i \in 0..(Len(name) - Len(part)) : SubSeq(name, i + 1, i + Len(part)) = part

\* the sensitiveFields array of mergeSettings
sensitiveFields ==
    <<<<"a", "p", "i", "K", "e", "y">>,
      <<"a", "p", "i", "T", "o", "k", "e", "n">>,
      <<"t", "o", "k", "e", "n">>,
      <<"s", "e", "c", "r", "e", "t">>,
      <<"p", "a", "s", "s", "w", "o", "r", "d">>,
      <<"c", "r", "e", "d", "e", "n", "t", "i", "a", "l">>>>

\* sensitiveFields.some(field => key.toLowerCase().includes(field))
isSensitive(key) ==
    \E i \in 1..Len(sensitiveFields) : includes(toLowerCase(key), sensitiveFields[i])

\* deepmerge(target, source) of the deepmerge package: objects are merged key
\* by key, anything else is replaced by the source value
RECURSIVE deepmerge(_, _)
deepmerge(target, source) ==
    IF isPrimitive(target) \/ isPrimitive(source) THEN source
    ELSE LET keys == Keys(target) \o SelectSeq(Keys(source), LAMBDA k : ~Has(target, k))
             value(k) == IF ~Has(source, k) THEN Get(target, k)
                         ELSE IF ~Has(target, k) THEN Get(source, k)
                         ELSE deepmerge(Get(target, k), Get(source, k))
         IN  Obj([i \in 1..Len(keys) |-> Member(keys[i], value(keys[i]))])

\* Merger.mergeSettings(local, remote)
mergeSettings(localValue, remoteValue) ==
    LET differs(key) == /\ Has(localValue, key)
                        /\ stringify(Get(localValue, key)) # stringify(Get(remoteValue, key))
    IN  [result |-> deepmerge(localValue, remoteValue),
         conflicts |-> SelectSeq(Keys(remoteValue),
                                 LAMBDA key : differs(key) /\ ~isSensitive(key)),
         merged |-> TRUE]

\* settings documents: each key absent or holding one of two values
SettingKeys ==
    <<<<"a", "p", "i", "K", "e", "y">>,
      <<"a", "p", "i", "T", "o", "k", "e", "n">>,
      <<"t", "h", "e", "m", "e">>>>
SettingValues == [key \in Range(SettingKeys) |-> {Num(1), Num(2)}]
SettingsDocs ==
    UNION {DocsOver(SelectSeq(SettingKeys, LAMBDA key : key \in present), SettingValues) :
              present \in SUBSET Range(SettingKeys)}

\* a caller runs mergeSettings(local, remote)
MergeSettingsCall ==
    /\ mc = <<>>
    /\ \E l \in SettingsDocs, r \in SettingsDocs :
          mc' = <<[fn |-> "mergeSettings", local |-> l, remote |-> r,
                   out |-> mergeSettings(l, r)]>>
    /\ UNCHANGED <<fileVars, confVars, posVars, histVars, debVars, watchVars, rc, bk, clock, pm>>

InitMerge ==
    /\ InitRest /\ InitWatcher /\ InitResolver
    /\ wait = 1

NextMerge ==
    \/ MergeJsonCall
    \/ ThreeWayMergeCall
    \/ MergeSettingsCall

SpecMerge == InitMerge /\ [][NextMerge]_vars

----------------------------------------------------------------------------
(* Properties *)

Pending == IF timeout THEN 1 ELSE 0

C2_ResolveAllBeforeWrite ==
    (phase = "pull" /\ localWrites # {}) => Len(resolved) = Len(conflicts)

C2_Witness ==
    /\ phase = "pull" /\ localWrites # {}
    /\ Len(conflicts) = 2 /\ Unresolved(resolved) = 1

\* the content the resolution of record i chose
Chosen(i) ==
    CASE choices[i] = "local"  -> resolved[i].localContent
      [] choices[i] = "remote" -> resolved[i].remoteContent
      [] choices[i] = "merge"  ->
            applyMergeChoice(resolved[i].localContent, resolved[i].remoteContent, "merge")
      [] OTHER -> Null

\* C3: when Pull finishes, every conflicting path whose record is resolved=true
\* holds the content its resolution chose (local, remote or merged).
C3_ChosenContentApplied ==
    (phase = "pull" /\ pc = "return" /\ result.success) =>
        \A i \in 1..Len(resolved) :
            resolved[i].resolved => local[resolved[i].path] = Chosen(i)

\* C4: a Pull in which exactly one conflict is skipped writes every other
\* resolved conflict's file and returns success with a non-empty conflicts
\* list in which the skipped path is marked resolved=false.
C4_OneSkipStillSucceeds ==
    (/\ phase = "pull" /\ pc = "return"
     /\ Len(conflicts) > 0 /\ Len(resolved) = Len(conflicts)
     /\ Unresolved(resolved) = 1
     /\ {ToApply(resolved)[i].path : i \in 1..Len(ToApply(resolved))} \subseteq localWrites)
    => /\ result.success
       /\ Len(result.conflicts) > 0
       /\ \E i \in 1..Len(result.conflicts) : \E j \in 1..Len(resolved) :
             /\ ~resolved[j].resolved
             /\ result.conflicts[i] = resolved[j]

\* C5: sync() runs Pull then Push; a Pull that fails with errors ends sync with
\* Pull's result and Push is never started; when Pull succeeds and Push fails,
\* sync returns Push's result; sync succeeds only when both did.
C5_SyncSequencing ==
    /\ (op = "sync" /\ phase = "push") =>
          ~(~pullResult.success /\ Len(pullResult.errors) > 0)
    /\ (lastOp = "sync" /\ op = "none") =>
          /\ (~pullResult.success /\ Len(pullResult.errors) > 0) =>
                (pushResult = NoResult /\ result = pullResult)
          /\ (pullResult.success /\ ~pushResult.success) => result = pushResult
          /\ result.success => (pullResult.success /\ pushResult.success)

C5_Witness ==
    /\ lastOp = "sync" /\ op = "none"
    /\ pullResult.message = "Pull completed with unresolved conflicts"
    /\ result = pullResult

\* C6: a Push that follows a successful Push with nothing changed in between
\* copies no file, creates no commit and returns success with pushedCount = 0.
C6_SecondPushDoesNothing ==
    (op = "push" /\ pc = "return" /\ cleanPush /\ result.success) =>
        (copies = 0 /\ commits = 0 /\ result.pushed = 0)

\* C7: the watcher never has two engine.sync() calls in flight: a trigger
\* starts a sync only when syncInProgress is false, and sets it before the
\* sync begins.
C7_SingleSyncInFlight ==
    /\ [](inFlight <= 1)
    /\ [][started' # started => (~syncInProgress /\ syncInProgress')]_vars

C7_Witness ==
    /\ skipped > 0 /\ inFlight = 1 /\ syncInProgress /\ op = "sync"

\* C8 as stated: every burst (calls less than wait apart) gets exactly one
\* invocation of func once wait has elapsed after its last call.
C8_OneInvocationPerBurst ==
    Len(invoked) + Pending = quiet

\* C8 amended: calls made while a timer is pending cause no invocation; func is
\* invoked only by the timer of the latest call, not before wait has elapsed
\* since that call, once per timer and with the arguments of that call.
C8_OneInvocationPerTimer ==
    /\ [](Len(invoked) + Pending = bursts)
    /\ [][invoked' # invoked =>
            /\ timeout /\ remaining = 0 /\ sinceCall >= wait
            /\ invoked' = Append(invoked, lastArgs)
            /\ ~timeout']_vars
    /\ [][(timeout /\ calls' # calls) => (invoked' = invoked /\ bursts' = bursts)]_vars

C8_Witness ==
    /\ calls >= 2 /\ bursts = 1 /\ Len(invoked) = 1 /\ invoked[1] = lastArgs

\* C9: a trigger that fires while a watcher-started sync is in flight is
\* skipped, not queued: it starts no sync then, and every sync that starts is
\* started by a trigger of its own.
C9_SkippedNotQueued ==
    /\ [](started + skipped + Pending = bursts)
    /\ [][(Len(invoked') # Len(invoked) /\ syncInProgress) =>
            /\ started' = started /\ skipped' = skipped + 1
            /\ ~timeout'
            /\ UNCHANGED <<op, phase, pc, inFlight, syncInProgress>>]_vars
    /\ [][started' # started => Len(invoked') = Len(invoked) + 1]_vars

C9_Witness ==
    /\ lastTrigger = "skipped" /\ ~syncInProgress /\ ~timeout
    /\ started = 1 /\ op = "none"

\* C10: resolveConflict returns resolved=true with the local content under
\* `local`, the remote content under `remote`; under `newest` the local content
\* when the local time is strictly later, the remote content when both times
\* are known and the local one is not later, the content of the only side
\* whose time is known, and the remote content when neither is known.
C10_ResolveConflict ==
    rc # <<>> =>
        LET x == rc[1]
            lm == x.localMtime
            rm == x.remoteMtime
            isLocal  == x.result.resolved /\ x.result.content = x.conflict.localContent
            isRemote == x.result.resolved /\ x.result.content = x.conflict.remoteContent
        IN  /\ x.strategy = "local" => isLocal
            /\ x.strategy = "remote" => isRemote
            /\ x.strategy = "newest" =>
                  /\ (lm # NoTime /\ rm # NoTime /\ lm > rm) => isLocal
                  /\ (lm # NoTime /\ rm # NoTime /\ ~(lm > rm)) => isRemote
                  /\ (lm # NoTime /\ rm = NoTime) => isLocal
                  /\ (lm = NoTime /\ rm # NoTime) => isRemote
                  /\ (lm = NoTime /\ rm = NoTime) => isRemote

C10_Witness ==
    /\ rc # <<>>
    /\ rc[1].strategy = "newest"
    /\ rc[1].localMtime = rc[1].remoteMtime /\ rc[1].localMtime # NoTime
    /\ rc[1].result.content = rc[1].conflict.remoteContent

\* C11: under strategy `ask`, a conflict answered `skip` keeps its record
\* resolved=false, and the file of that path in the live local tree keeps its
\* pre-pull content for the whole pull.
C11_SkipLeavesFileUntouched ==
    phase = "pull" =>
        \A i \in 1..Len(resolved) :
            choices[i] = "skip" =>
                /\ strategy = "ask"
                /\ ~resolved[i].resolved
                /\ local[resolved[i].path] = preLocal[resolved[i].path]

C11_Witness ==
    /\ phase = "pull" /\ pc = "return"
    /\ Len(resolved) = 2 /\ choices[2] = "skip" /\ choices[1] = "remote"
    /\ resolved[1].path \in localWrites
    /\ local[resolved[1].path] # preLocal[resolved[1].path]

\* C12: a record returned by resolveConflicts is resolved=true exactly when its
\* resolution gave a defined replacement content (choice local, remote or
\* merge) and resolved=false exactly when the choice was skip; no record is
\* resolved=true without a content, and there is no third outcome.
C12_ResolvedIffContent ==
    rc # <<>> =>
        LET x == rc[1]
            defined == /\ x.result.content # Null
                       /\ x.result.choice \in {"local", "remote", "merge"}
        IN  /\ x.entry.resolved <=> defined
            /\ ~x.entry.resolved <=> x.result.choice = "skip"
            /\ defined \/ x.result.choice = "skip"

C12_Witness ==
    /\ rc # <<>>
    /\ rc[1].strategy = "ask" /\ rc[1].answer = "skip"
    /\ ~rc[1].entry.resolved /\ rc[1].result.content = Null

\* the keys of an object, and equality of JSON values whatever the members' order
KeySet(o) == {o.kv[i].k : i \in 1..Len(o.kv)}

RECURSIVE SameValue(_, _)
SameValue(u, v) ==
    IF isPrimitive(u) \/ isPrimitive(v) THEN u = v
    ELSE /\ KeySet(u) = KeySet(v)
         /\ \A k \in KeySet(u) : SameValue(Get(u, k), Get(v, k))

RECURSIVE LeafRule(_, _, _, _, _, _)
LeafRule(strat, l, r, res, path, confl) ==
    IF ~isPrimitive(l) /\ ~isPrimitive(r)
    THEN /\ ~isPrimitive(res)
         /\ KeySet(res) = KeySet(l) \cup KeySet(r)
         /\ \A k \in KeySet(l) \ KeySet(r) : SameValue(Get(res, k), Get(l, k))
         /\ \A k \in KeySet(r) \ KeySet(l) : SameValue(Get(res, k), Get(r, k))
         /\ \A k \in KeySet(l) \cap KeySet(r) :
               LeafRule(strat, Get(l, k), Get(r, k), Get(res, k), JoinPath(path, k), confl)
    ELSE IF SameValue(l, r)
    THEN SameValue(res, l) /\ path \notin Range(confl)
    ELSE /\ SameValue(res, IF strat = "local" THEN l ELSE r)
         /\ path \in Range(confl)

C15_MergedIffNoConflicts ==
    mc # <<>> => (mc[1].out.merged <=> mc[1].out.conflicts = <<>>)

\* C16: when exactly one of local and remote differs from base, threeWayMerge
\* returns the value of the side that differs and reports no conflict.
C16_OneSideChanged ==
    (mc # <<>> /\ mc[1].fn = "threeWayMerge") =>
        LET x == mc[1] IN
        /\ (~SameValue(x.local, x.base) /\ SameValue(x.remote, x.base))
              => (x.out.conflicts = <<>> /\ SameValue(x.out.result, x.local))
        /\ (SameValue(x.local, x.base) /\ ~SameValue(x.remote, x.base))
              => (x.out.conflicts = <<>> /\ SameValue(x.out.result, x.remote))

\* v differs from w at key p and nowhere else
OnlyChanged(v, w, p) ==
    /\ KeySet(v) = KeySet(w) /\ p \in KeySet(v)
    /\ ~SameValue(Get(v, p), Get(w, p))
    /\ \A k \in KeySet(v) \ {p} : SameValue(Get(v, k), Get(w, k))

\* C17: when local changes only leaf p and remote changes only another leaf q,
\* threeWayMerge returns the value carrying both changes, with no conflict.
C17_DisjointChangesMerge ==
    (mc # <<>> /\ mc[1].fn = "threeWayMerge") =>
        LET x == mc[1] IN
        \A p \in {"a", "b"}, q \in {"a", "b"} :
            (p # q /\ OnlyChanged(x.local, x.base, p) /\ OnlyChanged(x.remote, x.base, q))
            => /\ x.out.conflicts = <<>>
               /\ KeySet(x.out.result) = KeySet(x.base)
               /\ SameValue(Get(x.out.result, p), Get(x.local, p))
               /\ SameValue(Get(x.out.result, q), Get(x.remote, q))

\* C18: when local equals remote, threeWayMerge returns that common value and
\* reports no conflict, whatever base is.
C18_EqualSides ==
    (mc # <<>> /\ mc[1].fn = "threeWayMerge" /\ SameValue(mc[1].local, mc[1].remote))
    => /\ mc[1].out.conflicts = <<>>
       /\ SameValue(mc[1].out.result, mc[1].local)

C18_Witness ==
    /\ mc # <<>> /\ mc[1].fn = "threeWayMerge"
    /\ SameValue(mc[1].local, mc[1].remote) /\ mc[1].local # mc[1].remote
    /\ ~SameValue(mc[1].base, mc[1].local) /\ KeySet(mc[1].base) = {"a", "b"}
    /\ SameValue(mc[1].out.result, mc[1].local)

\* the value at the leaf paths "a" and "b.x" of a document
NoValue == [t |-> "undefined", n |-> 0, kv |-> <<>>]
LeafAt(v, path) ==
    IF path = "a"
    THEN IF Has(v, "a") THEN Get(v, "a") ELSE NoValue
    ELSE IF Has(v, "b") /\ ~isPrimitive(Get(v, "b")) /\ Has(Get(v, "b"), "x")
         THEN Get(Get(v, "b"), "x") ELSE NoValue

\* C19: when local and remote both differ from base at one leaf and hold
\* different values there, the dot-path of that leaf is in threeWayMerge's
\* conflicts list.
C19_BothChangedLeafReported ==
    (mc # <<>> /\ mc[1].fn = "threeWayMerge") =>
        \A path \in {"a", "b.x"} :
            (/\ LeafAt(mc[1].local, path) # NoValue
             /\ LeafAt(mc[1].remote, path) # NoValue
             /\ LeafAt(mc[1].local, path) # LeafAt(mc[1].remote, path)
             /\ LeafAt(mc[1].base, path) # LeafAt(mc[1].local, path)
             /\ LeafAt(mc[1].base, path) # LeafAt(mc[1].remote, path))
            => path \in Range(mc[1].out.conflicts)

C19_Witness ==
    /\ mc # <<>> /\ mc[1].fn = "threeWayMerge"
    /\ LeafAt(mc[1].base, "a") = Num(1) /\ LeafAt(mc[1].local, "a") = Num(2)
    /\ LeafAt(mc[1].remote, "a") = Num(3)
    /\ LeafAt(mc[1].base, "b.x") = NoValue
    /\ mc[1].out.conflicts = <<"b.x", "a">>
    /\ ~mc[1].out.merged

\* C20: an error while copying one file of a batch (push copying the scanned
\* files into the mirror, pull copying the mirror's files into the live local
\* tree) does not abort the batch: the other files are still copied, and the
\* error is collected in the result's errors.
C20_BatchCopyContinues ==
    (pc = "return" /\ result.errors = <<"Error: copyFileSync">>) =>
        /\ phase = "push" =>
              Cardinality({p \in Range(files) : mirror[p] # local[p]}) <= 1
        /\ phase = "pull" =>
              Cardinality({p \in Range(files) : local[p] # mirror[p]}) <= 1

\* C21: when staging or committing fails, push() stops: git.push is not called
\* and the result is a failure; push() never returns success with a pushed
\* count above 0 unless this push created a commit and pushed it.
C21_NoSuccessWithoutCommit ==
    (phase = "push" /\ pc = "return" /\ result.success /\ result.pushed > 0) =>
        (commits > 0 /\ pushCalled /\ remote = head)

\* C22: when git.pull fails, pull() ends there: it returns success=false with
\* a non-empty errors list, resolves no conflict, and leaves every file of the
\* live local tree as it was.
C22_PullFailureIsTerminal ==
    (phase = "pull" /\ pc = "return" /\ result.message = "Failed to pull from remote") =>
        /\ ~result.success /\ Len(result.errors) > 0
        /\ conflicts = <<>> /\ resolved = <<>>
        /\ localWrites = {} /\ local = preLocal

C22_Witness ==
    /\ phase = "pull" /\ pc = "return" /\ result.message = "Failed to pull from remote"
    /\ transport = 1 /\ snap = "ok"
    /\ \E p \in Paths : local[p] # Absent /\ mirror[p] # Absent /\ local[p] # mirror[p]

\* C23: with an invalid configuration no operation has a side effect, however
\* it is started: no snapshot is created, the transport is not called, and
\* neither the mirror nor the live local tree is written.
C23_InvalidConfigNoSideEffect ==
    ~validateConfig(LoadedConfig).valid =>
        /\ backups = <<>> /\ snap = "none"
        /\ transport = 0 /\ ~pushCalled
        /\ mirrorWrites = {} /\ localWrites = {}

C30_RestoreRoundTrip ==
    (bk # <<>> /\ LastCall.fn = "restoreBackup") =>
        /\ \A i \in 1..(Len(bk) - 1) :
              (bk[i].fn = "createBackup" /\ bk[i].returned /\ bk[i].path = LastCall.path) =>
                  /\ LastCall.returned
                  /\ \A p \in Range(bk[i].files) : local[p] = bk[i].live[p]
                  /\ \A p \in Paths \ Range(bk[i].files) : local[p] = LastCall.before[p]
        /\ ~LastCall.existed => (~LastCall.returned /\ local = LastCall.before)

\* C29: every file of the live local tree that a pull overwrites is in the
\* snapshot this pull created, with the content it had before the pull, also
\* when the scanner does not report the file as eligible.
C29_OverwrittenFilesAreInSnapshot ==
    (phase = "pull" /\ snap = "ok") =>
        \A p \in localWrites :
            preLocal[p] # Absent =>
                /\ backups # <<>>
                /\ backups[Len(backups)].tree[p] = preLocal[p]

\* C28: the watcher's guard is held exactly while a sync call of the watcher
\* has not settled: when the call returns or throws, syncInProgress becomes
\* false, and a trigger that fires afterwards starts a new sync.
C28_GuardReleased ==
    /\ [](syncInProgress <=> inFlight > 0)
    /\ [][inFlight' < inFlight => ~syncInProgress']_vars
    /\ [][(Len(invoked') # Len(invoked) /\ inFlight = 0) =>
            (started' = started + 1 /\ syncInProgress' /\ op' = "sync")]_vars
    /\ ((syncInProgress /\ op = "none") ~> ~syncInProgress)

C28_Witness ==
    /\ started = 2 /\ syncInProgress /\ inFlight = 1 /\ skipped = 0
    /\ lastOp = "sync"

\* the dot-paths at which both documents have a value and the two values are
\* primitives that differ, or exactly one of them is a primitive
RECURSIVE ConflictPaths(_, _, _)
ConflictPaths(l, r, path) ==
    IF isPrimitive(l) /\ isPrimitive(r) THEN (IF l # r THEN {path} ELSE {})
    ELSE IF isPrimitive(l) # isPrimitive(r) THEN {path}
    ELSE UNION {ConflictPaths(Get(l, k), Get(r, k), JoinPath(path, k)) :
                   k \in KeySet(l) \cap KeySet(r)}

NamedSensitive(key) ==
    \E i \in 1..Len(sensitiveFields) : includes(key, sensitiveFields[i])

\* C25: mergeSettings keeps the local value of every sensitive field present on
\* both sides, takes the remote value of every other field that differs, and
\* lists in conflicts the differing keys that are not sensitive, and only those.
C25_SensitiveFieldsKeepLocal ==
    (mc # <<>> /\ mc[1].fn = "mergeSettings") =>
        LET l == mc[1].local
            r == mc[1].remote
            shared == KeySet(l) \cap KeySet(r)
        IN  /\ \A k \in shared :
                  Get(mc[1].out.result, k) = IF NamedSensitive(k) THEN Get(l, k) ELSE Get(r, k)
            /\ Range(mc[1].out.conflicts) =
                  {k \in shared : ~NamedSensitive(k) /\ Get(l, k) # Get(r, k)}

\* C26: matchesPattern returns false whenever the path matches a negation
\* pattern of the list, wherever that pattern stands, and true when it matches
\* a positive pattern and no negation pattern.
C26_NegationWins ==
    pm # <<>> =>
        LET filePath == pm[1].filePath
            patterns == pm[1].patterns
            IsNegation(q) == q # <<>> /\ Head(q) = "!"
            negated == \E i \in 1..Len(patterns) :
                          IsNegation(patterns[i]) /\ minimatch(filePath, Tail(patterns[i]))
            accepted == \E i \in 1..Len(patterns) :
                          ~IsNegation(patterns[i]) /\ minimatch(filePath, patterns[i])
        IN  /\ negated => ~pm[1].out
            /\ (accepted /\ ~negated) => pm[1].out

====
